---------------------------- MODULE Spec2Model ----------------------------
(***************************************************************************)
(* A model of frontend/script.js of VerilogAI: the conversation history,   *)
(* its persistence in localStorage, the pending action (chat / debug /     *)
(* explain / generate), the requests in flight and the message view.       *)
(*                                                                         *)
(* JavaScript values are records [t, s]: t is the type tag and s the text  *)
(* as a sequence of tokens.  A JSON text is a sequence of such tokens.     *)
(* Every event handler is one action; handleSend, which is async, is two:  *)
(* the part up to the fetch, and the continuation that runs when the       *)
(* response (or the failure) arrives.                                      *)
(***************************************************************************)
EXTENDS Naturals, Sequences, FiniteSets

VARIABLES
    conversationHistory,  \* script.js:3   the history (a JS value)
    currentAction,        \* script.js:4   the pending action
    localStorage,         \* the value under 'verilogai_conversation'
    chatInput,            \* chatInput.value, a sequence of characters
    chatMessages,         \* the children of #chatMessages, in order
    sidebar,              \* isSidebarOpen, the side panel's classes, the width
    pending,              \* the requests in flight
    storageFaulty,        \* whether localStorage.setItem can throw
    sends,                \* number of messages submitted so far (numbers the requests)
    savedHistory,         \* the history at the last successful setItem
    ev,                   \* what the last handler did
    clipboard,            \* the text on the system clipboard
    writes,               \* the writeText promises not yet fulfilled, oldest first
    timers                \* the setTimeout callbacks not yet run, oldest first

vars == <<conversationHistory, currentAction, localStorage, chatInput,
          chatMessages, sidebar, pending, storageFaulty, sends, savedHistory,
          ev, clipboard, writes, timers>>

(***************************************************************************)
(* Bounds                                                                  *)
(***************************************************************************)
\* the number of messages submitted in a behaviour (one fewer where setItem
\* can throw)
MaxSends == 2

(***************************************************************************)
(* JavaScript values                                                       *)
(***************************************************************************)
Str(s) == [t |-> "string", s |-> s]
Undefined == [t |-> "undefined", s |-> <<>>]
Tok(k) == [t |-> k, s |-> <<>>]

User == Str(<<"user">>)
Assistant == Str(<<"assistant">>)

Message(role, content) == [role |-> role, content |-> content]

JSArray(items) == [t |-> "array", items |-> items]
JSNull == [t |-> "null", items |-> <<>>]
JSNumber == [t |-> "number", items |-> <<>>]
JSObject == [t |-> "object", items |-> <<>>]

NoError == <<>>

\* String.prototype.trim on a sequence of characters
RECURSIVE TrimLeft(_)
TrimLeft(s) ==
    IF s # <<>> /\ Head(s) = " " THEN TrimLeft(Tail(s)) ELSE s

RECURSIVE TrimRight(_)
TrimRight(s) ==
    IF s # <<>> /\ s[Len(s)] = " "
    THEN TrimRight(SubSeq(s, 1, Len(s) - 1)) ELSE s

Trim(s) == TrimRight(TrimLeft(s))

(***************************************************************************)
(* JSON.stringify and JSON.parse, on the values the program handles        *)
(***************************************************************************)
\* a property whose value is undefined is left out of the JSON text
Prop(k, val) ==
    IF val.t = "undefined" THEN <<>> ELSE <<[t |-> "key", s |-> <<k>>], val>>

\* (a slip: only the content is written, the role is lost)
StringifyContentOnly(msg) ==
    <<Tok("{")>> \o Prop("content", msg.content) \o <<Tok("}")>>

StringifyObject(msg) ==
    <<Tok("{")>> \o Prop("role", msg.role) \o Prop("content", msg.content)
        \o <<Tok("}")>>

RECURSIVE StringifyItems(_)
StringifyItems(items) ==
    IF items = <<>> THEN <<>>
    ELSE StringifyObject(Head(items)) \o StringifyItems(Tail(items))

JSONstringify(v) ==
    CASE v.t = "array" -> <<Tok("[")>> \o StringifyItems(v.items) \o <<Tok("]")>>
      [] v.t = "object" -> <<Tok("{"), Tok("}")>>
      [] OTHER -> <<Tok(v.t)>>

ValueKinds == {"string", "number", "null"}

\* the members of an object from position i on: [ok, next, obj]
RECURSIVE ParseMembers(_, _, _)
ParseMembers(text, i, obj) ==
    IF i > Len(text) THEN [ok |-> FALSE, next |-> i, obj |-> obj]
    ELSE IF text[i].t = "}" THEN [ok |-> TRUE, next |-> i + 1, obj |-> obj]
    ELSE IF text[i].t = "key" /\ i + 1 <= Len(text)
                              /\ text[i + 1].t \in ValueKinds
    THEN ParseMembers(text, i + 2,
            IF text[i].s = <<"role">> THEN [obj EXCEPT !.role = text[i + 1]]
            ELSE IF text[i].s = <<"content">>
                 THEN [obj EXCEPT !.content = text[i + 1]]
                 ELSE obj)
    ELSE [ok |-> FALSE, next |-> i, obj |-> obj]

\* the elements of an array from position i on: [ok, next, items]
RECURSIVE ParseElements(_, _, _)
ParseElements(text, i, acc) ==
    IF i > Len(text) THEN [ok |-> FALSE, next |-> i, items |-> acc]
    ELSE IF text[i].t = "]" THEN [ok |-> TRUE, next |-> i + 1, items |-> acc]
    ELSE IF text[i].t = "{"
    THEN LET m == ParseMembers(text, i + 1, Message(Undefined, Undefined))
         IN  IF m.ok THEN ParseElements(text, m.next, Append(acc, m.obj))
             ELSE [ok |-> FALSE, next |-> i, items |-> acc]
    ELSE [ok |-> FALSE, next |-> i, items |-> acc]

\* JSON.parse: ok = FALSE is a SyntaxError
JSONparse(text) ==
    IF text = <<>> THEN [ok |-> FALSE, val |-> JSNull]
    ELSE IF text = <<Tok("null")>> THEN [ok |-> TRUE, val |-> JSNull]
    ELSE IF text = <<Tok("number")>> THEN [ok |-> TRUE, val |-> JSNumber]
    ELSE IF text[1].t = "["
    THEN LET a == ParseElements(text, 2, <<>>)
         IN  [ok |-> a.ok /\ a.next = Len(text) + 1, val |-> JSArray(a.items)]
    ELSE IF text[1].t = "{"
    THEN LET o == ParseMembers(text, 2, Message(Undefined, Undefined))
         IN  [ok |-> o.ok /\ o.next = Len(text) + 1, val |-> JSObject]
    ELSE [ok |-> FALSE, val |-> JSNull]

(***************************************************************************)
(* The message view                                                        *)
(***************************************************************************)
TypingBlock == [kind |-> "typing", role |-> Assistant, html |-> <<>>]

\* the Markdown fence of a code block (marked takes tildes as well as backquotes)
Fence == "~~~"

IsFenced(s) == Len(s) >= 2 /\ s[1] = Fence /\ s[Len(s)] = Fence

\* marked.parse throws on input that is not a string; a fenced text becomes
\* a pre/code element, any other text a paragraph
MarkedParse(content) ==
    IF content.t = "string"
    THEN IF IsFenced(content.s)
         THEN [err |-> NoError,
               html |-> <<"<pre>", "<code>">> \o SubSeq(content.s, 2, Len(content.s) - 1)
                        \o <<"</code>", "</pre>">>]
         ELSE [err |-> NoError, html |-> <<"<p>">> \o content.s \o <<"</p>">>]
    ELSE [err |-> <<"marked(): input parameter is undefined or null">>,
          html |-> <<>>]

\* the icons of the copy button
CopyIcon == "fa-copy"
CheckIcon == "fa-check"

\* querySelectorAll('pre code') on the html of one message
HasCodeBlock(html) == Len(html) >= 4 /\ html[1] = "<pre>" /\ html[2] = "<code>"

\* codeBlock.textContent
TextContent(html) == SubSeq(html, 3, Len(html) - 2)

\* a message block; button is the innerHTML of the copy button of its code
\* block (the empty sequence if it has none)
MessageBlock(msg) ==
    LET html == MarkedParse(msg.content).html
    IN  [kind |-> "message", role |-> msg.role, html |-> html,
         button |-> IF HasCodeBlock(html) THEN <<CopyIcon>> ELSE <<>>]

\* the blocks forEach appends before the callback throws (all, if it never does)
RECURSIVE RenderItems(_, _)
RenderItems(items, acc) ==
    IF items = <<>> THEN [view |-> acc, err |-> NoError]
    ELSE LET p == MarkedParse(Head(items).content)
         IN  IF p.err # NoError THEN [view |-> acc, err |-> p.err]
             ELSE RenderItems(Tail(items), Append(acc, MessageBlock(Head(items))))

\* renderMessages: [view, err]
renderMessages(h) ==
    IF h.t # "array"
    THEN [view |-> <<>>, err |-> <<"conversationHistory.forEach is not a function">>]
    ELSE RenderItems(h.items, <<>>)

\* removeTypingIndicator: getElementById finds the first element with the id
RECURSIVE removeTypingIndicator(_)
removeTypingIndicator(view) ==
    IF view = <<>> THEN <<>>
    ELSE IF Head(view).kind = "typing" THEN Tail(view)
    ELSE <<Head(view)>> \o removeTypingIndicator(Tail(view))

showTypingIndicator(view) == Append(view, TypingBlock)

(***************************************************************************)
(* The side panel                                                          *)
(***************************************************************************)
MobileWidth == 768

\* the widths of the window the model starts the page with
ViewportWidths == {MobileWidth}

\* checkMobileView
checkMobileView(sb) ==
    IF sb.innerWidth <= MobileWidth
    THEN [sb EXCEPT !.collapsed = TRUE, !.isSidebarOpen = FALSE]
    ELSE [sb EXCEPT !.collapsed = FALSE, !.isSidebarOpen = TRUE]

\* the widths the window is resized to: both sides of the breakpoint
PanelWidths == {MobileWidth - 1, MobileWidth, MobileWidth + 1}

\* toggleSidebar
toggleSidebar(sb) ==
    IF sb.innerWidth <= MobileWidth
    THEN [sb EXCEPT !.open = ~@, !.isSidebarOpen = ~@]
    ELSE sb

\* closeSidebar
closeSidebar(sb) ==
    IF sb.innerWidth <= MobileWidth
    THEN [sb EXCEPT !.open = FALSE, !.isSidebarOpen = FALSE]
    ELSE sb

(***************************************************************************)
(* The conversation store.  A store state is [h, ls, saved, view, err]:    *)
(* history, the localStorage entry, the view and the history last saved,   *)
(* with err the message of the error thrown (NoError if none).             *)
(***************************************************************************)
QuotaError == <<"QuotaExceededError">>

\* (a slip: the history is written under the key as it was before the push)
saveConversationStale(h, ls, saved, writeOk) ==
    IF writeOk
    THEN [ls |-> [present |-> TRUE,
                  text |-> JSONstringify(JSArray(SubSeq(h.items, 1, Len(h.items) - 1)))],
          saved |-> h, err |-> NoError]
    ELSE [ls |-> ls, saved |-> saved, err |-> QuotaError]

\* saveConversation: [ls, saved, err]; setItem throws when the write fails
saveConversation(h, ls, saved, writeOk) ==
    IF writeOk
    THEN [ls |-> [present |-> TRUE, text |-> JSONstringify(h)],
          saved |-> h, err |-> NoError]
    ELSE [ls |-> ls, saved |-> saved, err |-> QuotaError]

\* (a slip: unshift for push, the new message goes in front)
addMessageUnshift(S, role, content, writeOk) ==
    IF S.h.t # "array"
    THEN [S EXCEPT !.err = <<"conversationHistory.unshift is not a function">>]
    ELSE LET h1 == JSArray(<<Message(role, content)>> \o S.h.items)
             sv == saveConversation(h1, S.ls, S.saved, writeOk)
             r  == renderMessages(h1)
         IN  IF sv.err # NoError
             THEN [S EXCEPT !.h = h1, !.err = sv.err]
             ELSE [h |-> h1, ls |-> sv.ls, saved |-> sv.saved,
                   view |-> r.view, err |-> r.err]

\* addMessage(role, content): the store state it leaves and the error it throws
addMessage(S, role, content, writeOk) ==
    IF S.h.t # "array"
    THEN [S EXCEPT !.err = <<"conversationHistory.push is not a function">>]
    ELSE LET h1 == JSArray(Append(S.h.items, Message(role, content)))
             sv == saveConversation(h1, S.ls, S.saved, writeOk)
             r  == renderMessages(h1)
         IN  IF sv.err # NoError
             THEN [S EXCEPT !.h = h1, !.err = sv.err]
             ELSE [h |-> h1, ls |-> sv.ls, saved |-> sv.saved,
                   view |-> r.view, err |-> r.err]

\* loadConversation on a fresh page: [h, view]
loadConversation(ls) ==
    IF ls.present /\ ls.text # <<>>
    THEN LET p == JSONparse(ls.text)
         IN  IF p.ok
             THEN [h |-> p.val, view |-> renderMessages(p.val).view]
             ELSE [h |-> JSArray(<<>>), view |-> <<>>]
    ELSE [h |-> JSArray(<<>>), view |-> <<>>]

\* (a slip: the gate asks for any non-empty history)
NeedsConfirmNonEmpty(h) == h.t = "array" /\ Len(h.items) > 0

\* the confirmation gate of startNewChat: conversationHistory.length > 1
NeedsConfirm(h) == h.t = "array" /\ Len(h.items) > 1

(***************************************************************************)
(* The completion client                                                   *)
(***************************************************************************)
Modes == {"debug", "explain", "generate"}

\* (a slip: the payload carries the whole history, the new prompt included)
WholeHistory(h) == h.items

\* conversationHistory.slice(0, -1)
PriorHistory(h) ==
    IF h.items = <<>> THEN <<>> ELSE SubSeq(h.items, 1, Len(h.items) - 1)

\* the switch of handleSend and the fetch of the handler it calls
\* (a body without a history field has history = <<>>; via is the control
\* that submitted the message)
Request(id, via, action, message, h) ==
    CASE action = "debug" ->
           [id |-> id, via |-> via, endpoint |-> "/debug", field |-> "code",
            text |-> message, history |-> <<>>]
      [] action = "explain" ->
           [id |-> id, via |-> via, endpoint |-> "/explain", field |-> "code",
            text |-> message, history |-> <<>>]
      [] action = "generate" ->
           [id |-> id, via |-> via, endpoint |-> "/generate", field |-> "spec",
            text |-> message, history |-> <<>>]
      [] OTHER ->
           [id |-> id, via |-> via, endpoint |-> "/chat", field |-> "prompt",
            text |-> message,
            history |-> JSONstringify(JSArray(PriorHistory(h)))]

\* how a request can end
Outcomes == {"reply", "noReply", "httpError", "networkError"}

\* what the handler returns (data.reply) when the status is a success
Reply(outcome) ==
    IF outcome = "reply" THEN Str(<<"module", " ", "m">>) ELSE Undefined

\* error.message of what the handler throws when the request fails
RequestError(outcome) ==
    IF outcome = "httpError" THEN <<"HTTP error! status: ", "500">>
    ELSE <<"Failed to fetch">>

\* (a slip: the bare error message, without the "Error:" prefix)
BareErrorContent(message) == Str(message)

\* `Error: ${error.message}`
ErrorContent(message) == Str(<<"Error:", " ">> \o message)

(***************************************************************************)
(* State after DOMContentLoaded                                            *)
(***************************************************************************)
\* what the user types into the input box
InputValues == {<<>>, <<" ", "b", " ">>}

Stored(text) == [present |-> TRUE, text |-> text]

\* what the page can find under its key when it loads
PersistedValues ==
    { [present |-> FALSE, text |-> <<>>],
      Stored(<<>>),
      Stored(JSONstringify(JSArray(<<Message(User, Str(<<"a">>)),
                                     Message(Assistant, Str(<<"m">>))>>))),
      Stored(<<Tok("junk")>>),
      Stored(<<Tok("null")>>),
      Stored(<<Tok("{"), Tok("}")>>),
      Stored(<<Tok("["), Tok("{"), Tok("}"), Tok("]")>>) }

\* what a handler did: the control or event, the request concerned, how it
\* went, whether it ended in an uncaught exception, whether a setItem threw
Event(op, id, outcome, uncaught, quota) ==
    [op |-> op, id |-> id, outcome |-> outcome, uncaught |-> uncaught,
     quota |-> quota]

NotSaved == [t |-> "none", items |-> <<>>]

\* the DOMContentLoaded handler on a fresh page of the given width
PageLoad(ls, width) ==
    LET l == loadConversation(ls)
    IN  /\ conversationHistory' = l.h
        /\ chatMessages' = l.view
        /\ currentAction' = "chat"
        /\ chatInput' = <<>>
        /\ pending' = {}
        /\ writes' = <<>>
        /\ timers' = <<>>
        /\ UNCHANGED clipboard
        /\ sidebar' = checkMobileView([innerWidth |-> width, isSidebarOpen |-> FALSE,
                                       open |-> FALSE, collapsed |-> FALSE])
        /\ ev' = Event("load", 0, "loaded", FALSE, FALSE)

\* the state after the page has loaded with pv under its key, at width w
InitOn(pv, w, faulty) ==
        LET l == loadConversation(pv)
        IN  /\ conversationHistory = l.h
            /\ chatMessages = l.view
            /\ currentAction = "chat"
            /\ localStorage = pv
            /\ chatInput = <<>>
            /\ pending = {}
            /\ sidebar = checkMobileView([innerWidth |-> w, isSidebarOpen |-> FALSE,
                                          open |-> FALSE, collapsed |-> FALSE])
            /\ storageFaulty \in faulty
            /\ sends = 0
            /\ savedHistory = NotSaved
            /\ ev = Event("load", 0, "loaded", FALSE, FALSE)
            /\ clipboard = <<>>
            /\ writes = <<>>
            /\ timers = <<>>

InitWith(faulty) ==
    \E pv \in PersistedValues, w \in ViewportWidths : InitOn(pv, w, faulty)

Init == InitWith({FALSE})
InitQuota == InitWith({TRUE})

(***************************************************************************)
(* The handlers                                                            *)
(***************************************************************************)
Store == [h |-> conversationHistory, ls |-> localStorage, saved |-> savedHistory,
          view |-> chatMessages, err |-> NoError]

SetStore(S) ==
    /\ conversationHistory' = S.h
    /\ localStorage' = S.ls
    /\ savedHistory' = S.saved
    /\ chatMessages' = S.view

WriteOutcomes == IF storageFaulty THEN {TRUE, FALSE} ELSE {TRUE}

SendLimit == IF storageFaulty THEN MaxSends - 1 ELSE MaxSends

\* handleSend up to its await, entered with currentAction = action and
\* chatInput.value = value
handleSend(op, action, value) ==
    LET message == Trim(value)
    IN  /\ currentAction' = action
        /\ UNCHANGED <<sidebar, storageFaulty, clipboard, writes, timers>>
        /\ IF message = <<>>
           THEN /\ chatInput' = value
                /\ UNCHANGED <<conversationHistory, localStorage, chatMessages,
                               pending, sends, savedHistory>>
                /\ ev' = Event(op, 0, "empty", FALSE, FALSE)
           ELSE /\ sends < SendLimit
                /\ sends' = sends + 1
                /\ \E writeOk \in WriteOutcomes :
                     LET r == addMessage(Store, User, Str(message), writeOk)
                     IN  IF r.err # NoError
                         THEN /\ SetStore(r)
                              /\ chatInput' = value
                              /\ UNCHANGED pending
                              /\ ev' = Event(op, 0, "threw", TRUE, r.err = QuotaError)
                         ELSE /\ SetStore([r EXCEPT !.view = showTypingIndicator(@)])
                              /\ chatInput' = <<>>
                              /\ pending' = pending \cup
                                     {Request(sends + 1, op, action, message, r.h)}
                              /\ ev' = Event(op, sends + 1, "dispatched", FALSE,
                                             FALSE)

\* what the input box can hold when a control is activated: what the last
\* handler left in it, or what the user has typed since
Typed == InputValues \cup {chatInput}

\* sendBtn click
SendClick == \E value \in Typed : handleSend("send", currentAction, value)

\* chatInput keydown
KeyDown ==
    \E key \in {"Enter", "x"}, shiftKey \in BOOLEAN :
        IF key = "Enter" /\ ~shiftKey
        THEN \E value \in Typed : handleSend("send", currentAction, value)
        ELSE UNCHANGED vars

\* debugBtn, explainBtn, generateBtn click
DebugClick == \E value \in Typed : handleSend("debug", "debug", value)
ExplainClick == \E value \in Typed : handleSend("explain", "explain", value)
GenerateClick == \E value \in Typed : handleSend("generate", "generate", value)

\* handleSend from its await on: the request req ends with outcome
HandleResponse ==
    \E req \in pending, outcome \in Outcomes :
        LET success == outcome \in {"reply", "noReply"}
        IN  \E ok1 \in (IF success THEN WriteOutcomes ELSE {TRUE}) :
            LET S1 == IF success
                      THEN addMessage([Store EXCEPT !.view = removeTypingIndicator(@)],
                                      Assistant, Reply(outcome), ok1)
                      ELSE Store
                caught == IF success THEN S1.err ELSE RequestError(outcome)
            IN  \E ok2 \in (IF caught = NoError THEN {TRUE} ELSE WriteOutcomes) :
                LET S2 == IF caught = NoError THEN S1
                          ELSE addMessage([S1 EXCEPT
                                              !.view = removeTypingIndicator(@),
                                              !.err = NoError],
                                          Assistant, ErrorContent(caught), ok2)
                IN  /\ SetStore(S2)
                    /\ currentAction' =
                           (IF S2.err = NoError THEN "chat" ELSE currentAction)
                    /\ pending' = pending \ {req}
                    /\ ev' = Event("response", req.id, outcome, S2.err # NoError,
                                   QuotaError \in {S1.err, S2.err})
                    /\ UNCHANGED <<chatInput, sidebar, storageFaulty, sends,
                                   clipboard, writes, timers>>

\* newChatBtn click; answer is what confirm() returns when it is called
startNewChat ==
    \E answer \in BOOLEAN, writeOk \in WriteOutcomes :
        /\ UNCHANGED <<currentAction, chatInput, pending, storageFaulty, sends,
                       clipboard, writes, timers>>
        /\ IF conversationHistory.t = "null"
           THEN /\ UNCHANGED <<conversationHistory, localStorage, savedHistory,
                               chatMessages, sidebar>>
                /\ ev' = Event("newChat", 0, "threw", TRUE, FALSE)
           ELSE IF NeedsConfirm(conversationHistory) /\ ~answer
           THEN /\ UNCHANGED <<conversationHistory, localStorage, savedHistory,
                               chatMessages, sidebar>>
                /\ ev' = Event("newChat", 0, "refused", FALSE, FALSE)
           ELSE LET sv == saveConversation(JSArray(<<>>), localStorage,
                                           savedHistory, writeOk)
                IN  /\ conversationHistory' = JSArray(<<>>)
                    /\ localStorage' = sv.ls
                    /\ savedHistory' = sv.saved
                    /\ IF sv.err # NoError
                       THEN /\ UNCHANGED <<chatMessages, sidebar>>
                            /\ ev' = Event("newChat", 0,
                                   IF NeedsConfirm(conversationHistory)
                                   THEN "confirmed" ELSE "unasked", TRUE, TRUE)
                       ELSE /\ chatMessages' = renderMessages(JSArray(<<>>)).view
                            /\ sidebar' = closeSidebar(sidebar)
                            /\ ev' = Event("newChat", 0,
                                   IF NeedsConfirm(conversationHistory)
                                   THEN "confirmed" ELSE "unasked", FALSE, FALSE)

\* the page is loaded again: the requests in flight are dropped with the old page
Reload ==
    /\ ev.op # "load"
    /\ PageLoad(localStorage, sidebar.innerWidth)
    /\ UNCHANGED <<localStorage, storageFaulty, sends, savedHistory>>

Next ==
    \/ SendClick
    \/ KeyDown
    \/ DebugClick
    \/ ExplainClick
    \/ GenerateClick
    \/ HandleResponse
    \/ startNewChat
    \/ Reload

Spec == Init /\ [][Next]_vars
SpecQuota == InitQuota /\ [][Next]_vars

(***************************************************************************)
(* The copy control.  A button is named by the position of its message     *)
(* block in the view.  The callbacks of copyCode run later: the one given  *)
(* to then() when the write is done, the one given to setTimeout 2000 ms   *)
(* after that; equal delays run in the order they were set.                *)
(***************************************************************************)
\* number of activations whose callbacks have not all run yet
MaxPendingCopies == 3

\* a conversation with a code block in the user's message and one in the reply
CodeHistory ==
    JSArray(<<Message(User, Str(<<Fence, "x", Fence>>)),
              Message(Assistant, Str(<<Fence, "y", Fence>>))>>)

\* copyCode(button), up to the call of writeText
copyCode ==
    \E i \in DOMAIN chatMessages :
        /\ chatMessages[i].kind = "message"
        /\ chatMessages[i].button # <<>>
        /\ Len(writes) + Len(timers) < MaxPendingCopies
        /\ writes' = Append(writes, [button |-> i,
                                     text |-> TextContent(chatMessages[i].html)])
        /\ ev' = Event("copy", i, "clicked", FALSE, FALSE)
        /\ UNCHANGED <<conversationHistory, currentAction, localStorage, chatInput,
                       chatMessages, sidebar, pending, storageFaulty, sends,
                       savedHistory, clipboard, timers>>

\* the oldest write is done and the callback given to then() runs
WriteTextFulfilled ==
    /\ writes # <<>>
    /\ LET w == Head(writes)
       IN  /\ clipboard' = w.text
           /\ chatMessages' = [chatMessages EXCEPT ![w.button].button = <<CheckIcon>>]
           /\ timers' = Append(timers,
                               [button |-> w.button,
                                originalHtml |-> chatMessages[w.button].button])
           /\ ev' = Event("copy", w.button, "copied", FALSE, FALSE)
    /\ writes' = Tail(writes)
    /\ UNCHANGED <<conversationHistory, currentAction, localStorage, chatInput,
                   sidebar, pending, storageFaulty, sends, savedHistory>>

\* the oldest timer expires and the callback given to setTimeout runs
TimerFires ==
    /\ timers # <<>>
    /\ LET t == Head(timers)
       IN  /\ chatMessages' = [chatMessages EXCEPT ![t.button].button = t.originalHtml]
           /\ ev' = Event("copy", t.button, "reverted", FALSE, FALSE)
    /\ timers' = Tail(timers)
    /\ UNCHANGED <<conversationHistory, currentAction, localStorage, chatInput,
                   sidebar, pending, storageFaulty, sends, savedHistory, clipboard,
                   writes>>

InitCopy ==
    \E w \in ViewportWidths : InitOn(Stored(JSONstringify(CodeHistory)), w, {FALSE})

NextCopy ==
    \/ copyCode
    \/ WriteTextFulfilled
    \/ TimerFires

SpecCopy == InitCopy /\ [][NextCopy]_vars

(***************************************************************************)
(* The side panel's listeners.  A click is named by its target: the toggle *)
(* button itself, or an element outside the panel and the toggle.          *)
(***************************************************************************)
\* the click listener of document
documentClick(sb, target) ==
    IF sb.isSidebarOpen /\ sb.innerWidth <= MobileWidth
    THEN IF target = "outside" THEN closeSidebar(sb) ELSE sb
    ELSE sb

\* a click on sidebarToggle: its listener, then the one of document
ToggleClick ==
    /\ sidebar' = documentClick(toggleSidebar(sidebar), "toggle")
    /\ ev' = Event("toggle", 0, "clicked", FALSE, FALSE)
    /\ UNCHANGED <<conversationHistory, currentAction, localStorage, chatInput,
                   chatMessages, pending, storageFaulty, sends, savedHistory,
                   clipboard, writes, timers>>

\* a click on an element that has no listener of its own, outside the panel
OutsideClick ==
    /\ sidebar' = documentClick(sidebar, "outside")
    /\ ev' = Event("click", 0, "outside", FALSE, FALSE)
    /\ UNCHANGED <<conversationHistory, currentAction, localStorage, chatInput,
                   chatMessages, pending, storageFaulty, sends, savedHistory,
                   clipboard, writes, timers>>

\* the resize listener of window
Resize ==
    \E width \in PanelWidths :
        /\ sidebar' = checkMobileView([sidebar EXCEPT !.innerWidth = width])
        /\ ev' = Event("resize", 0, "resized", FALSE, FALSE)
        /\ UNCHANGED <<conversationHistory, currentAction, localStorage, chatInput,
                       chatMessages, pending, storageFaulty, sends, savedHistory,
                       clipboard, writes, timers>>

InitPanel ==
    \E pv \in PersistedValues, w \in PanelWidths : InitOn(pv, w, {FALSE})

NextPanel ==
    \/ ToggleClick
    \/ OutsideClick
    \/ Resize
    \/ startNewChat

SpecPanel == InitPanel /\ [][NextPanel]_vars

(***************************************************************************)
(* Vocabulary of the properties                                            *)
(***************************************************************************)
IsPrefix(a, b) == Len(a) <= Len(b) /\ SubSeq(b, 1, Len(a)) = a

BeginsWithError(c) == c.t = "string" /\ c.s # <<>> /\ c.s[1] = "Error:"

Last(items) == items[Len(items)]

\* the step appends exactly n messages to the history and changes no other
AppendsExactly(n) ==
    /\ conversationHistory.t = "array"
    /\ conversationHistory'.t = "array"
    /\ Len(conversationHistory'.items) = Len(conversationHistory.items) + n
    /\ IsPrefix(conversationHistory.items, conversationHistory'.items)

\* the requests the step issues, and the ones it completes
Issued == pending' \ pending
Finished == pending \ pending'

\* the endpoint table of the interface
EndpointOf(mode) ==
    CASE mode = "debug" -> "/debug"
      [] mode = "explain" -> "/explain"
      [] mode = "generate" -> "/generate"
      [] OTHER -> "/chat"

EmptyHistory == JSArray(<<>>)
StoredEmpty == Stored(<<Tok("["), Tok("]")>>)

\* a persisted value that is a JSON array of {role, content} messages
WellFormed(ls) ==
    /\ ls.present
    /\ JSONparse(ls.text).ok
    /\ JSONparse(ls.text).val.t = "array"
    /\ \A i \in DOMAIN JSONparse(ls.text).val.items :
          /\ JSONparse(ls.text).val.items[i].role \in {User, Assistant}
          /\ JSONparse(ls.text).val.items[i].content.t = "string"

\* the view renders the history without an exception
Renders(h) == renderMessages(h).err = NoError

(***************************************************************************)
(* Properties                                                              *)
(***************************************************************************)

\* C1: a send, in any mode, whose request ends with a non-2xx status or a
\* transport failure appends exactly one message; it has role assistant and
\* content beginning with "Error:", and the history as it was just before is
\* a prefix of the new history.
C1_ErrorAppended ==
    [][(ev'.op = "response" /\ ev'.outcome \in {"httpError", "networkError"})
        => /\ AppendsExactly(1)
           /\ Last(conversationHistory'.items).role = Assistant
           /\ BeginsWithError(Last(conversationHistory'.items).content)]_vars

\* a failed request has just appended its error message after four earlier
\* messages, the persisted ones among them
C1_Witness ==
    /\ ev.op = "response"
    /\ ev.outcome = "httpError"
    /\ conversationHistory.t = "array"
    /\ Len(conversationHistory.items) >= 4
    /\ conversationHistory.items[1] = Message(User, Str(<<"a">>))
    /\ BeginsWithError(Last(conversationHistory.items).content)

\* C2: activating the control of mode m with non-empty input issues exactly
\* one request, to m's endpoint; and when a send started that way finishes,
\* the pending action is chat, whether the request succeeded or failed.
\* (The first half is stated for a history the view can render.)
C2_ModeRequestAndReset ==
    [][/\ \A m \in Modes :
            (/\ ev'.op = m
             /\ ev'.outcome # "empty"
             /\ conversationHistory.t = "array"
             /\ Renders(conversationHistory))
            => \E r \in Issued : Issued = {r} /\ r.endpoint = EndpointOf(m)
       /\ (ev'.op = "response" /\ \E r \in Finished : r.via \in Modes)
            => currentAction' = "chat"]_vars

\* C3: a mode selection is one-shot: a message submitted through the send
\* button or Enter right after another message was submitted (which used any
\* mode selected before, and no control was activated since) is dispatched to
\* the chat endpoint, also while the request of that other message is still
\* in flight.
C3_OneShot ==
    [][(ev.outcome = "dispatched" /\ ev'.op = "send")
        => \A r \in Issued : r.endpoint = EndpointOf("chat")]_vars

\* C4: the history field of every request to the chat endpoint is the
\* conversation history as it was immediately before the user message that
\* is its prompt was appended.
C4_ChatHistoryIsPrior ==
    [][\A r \in Issued :
          r.endpoint = "/chat"
          => /\ AppendsExactly(1)
             /\ Last(conversationHistory'.items) = Message(User, Str(r.text))
             /\ r.history = JSONstringify(conversationHistory)]_vars

\* a chat request with a non-empty prior history is in flight together with
\* another request
C4_Witness ==
    \E r \in pending :
        /\ r.endpoint = "/chat"
        /\ Len(r.history) > 2
        /\ Cardinality(pending) = 2

\* C5: save/restore round trip: loadConversation on the value that
\* saveConversation last stored yields the in-memory history of the time of
\* that save, the same messages in the same order; and so does the page when
\* it is loaded again.
C5_RoundTrip ==
    savedHistory.t = "array"
    => /\ loadConversation(localStorage).h = savedHistory
       /\ (ev.op = "load" => conversationHistory = savedHistory)

\* the page has been loaded again on a saved history of three messages or
\* more, an error message last
C5_Witness ==
    /\ ev.op = "load"
    /\ savedHistory.t = "array"
    /\ Len(savedHistory.items) >= 3
    /\ BeginsWithError(Last(savedHistory.items).content)
    /\ conversationHistory = savedHistory

\* C6: on a persisted value that is missing or malformed, loadConversation
\* leaves the conversation history an empty sequence.
C6_MalformedLeavesEmpty ==
    (ev.op = "load" /\ ~WellFormed(localStorage))
    => conversationHistory = EmptyHistory

\* C7: startNewChat on a history of more than one message empties it only if
\* the user confirms, and on refusal leaves the history and the persisted
\* value unchanged; with zero or one message it empties the history without
\* asking; whenever it empties the history it persists the empty history.
C7_ClearGate ==
    [][(ev'.op = "newChat" /\ conversationHistory.t = "array")
        => /\ Len(conversationHistory.items) > 1
              => /\ ev'.outcome \in {"refused", "confirmed"}
                 /\ ev'.outcome = "refused"
                    => UNCHANGED <<conversationHistory, localStorage>>
                 /\ ev'.outcome = "confirmed"
                    => conversationHistory' = EmptyHistory
           /\ Len(conversationHistory.items) <= 1
              => /\ ev'.outcome = "unasked"
                 /\ conversationHistory' = EmptyHistory
           /\ ev'.outcome # "refused"
              => localStorage' = StoredEmpty]_vars

\* the user has confirmed the clearing of a longer history while a request
\* was in flight: the history and the persisted value are empty
C7_Witness ==
    /\ ev.op = "newChat"
    /\ ev.outcome = "confirmed"
    /\ conversationHistory = EmptyHistory
    /\ localStorage = StoredEmpty
    /\ pending # {}

\* C8: a send whose request returns a success status with a body that has no
\* reply field fails as a malformed response: exactly one assistant message
\* beginning with "Error:" is appended (so no message with absent content),
\* handleSend ends without an uncaught exception and the pending action is
\* chat afterwards.
C8_MissingReplyIsError ==
    [][(ev'.op = "response" /\ ev'.outcome = "noReply")
        => /\ AppendsExactly(1)
           /\ Last(conversationHistory'.items).role = Assistant
           /\ BeginsWithError(Last(conversationHistory'.items).content)
           /\ ~ev'.uncaught
           /\ currentAction' = "chat"]_vars

\* C9: a storage write failure during an append is non-fatal and invisible:
\* the handler ends without an uncaught exception, a send still issues its
\* request, and a reply is still appended as the one new message, not as an
\* "Error:" message.
C9_StorageFailureNonFatal ==
    [][ev'.quota
        => /\ ~ev'.uncaught
           /\ ev'.op \in Modes \cup {"send"} => Cardinality(Issued) = 1
           /\ (ev'.op = "response" /\ ev'.outcome = "reply")
              => /\ AppendsExactly(1)
                 /\ ~BeginsWithError(Last(conversationHistory'.items).content)]_vars

\* C10: every dispatched request, once it completes or fails, appends exactly
\* one assistant message to the history as it is at that moment, also after
\* the history was cleared while the request was in flight.
C10_ResultAppendedOnce ==
    [][ev'.op = "response"
        => /\ AppendsExactly(1)
           /\ Last(conversationHistory'.items).role = Assistant]_vars

\* the typing placeholder is in the view
TypingShown == \E i \in DOMAIN chatMessages : chatMessages[i].kind = "typing"

\* C11: whenever at least one request is in flight the typing placeholder is
\* in the message view, and whenever none is in flight it is absent; the
\* placeholder is never an entry of the conversation history. This holds
\* under overlapping sends and under a clear while a request is in flight.
C11_TypingWhileInFlight ==
    /\ (pending # {}) <=> TypingShown
    /\ conversationHistory.t = "array"
       => \A i \in DOMAIN conversationHistory.items :
             conversationHistory.items[i] # TypingBlock

\* C12: each activation of a code block's copy button copies the block's
\* literal text, also a second activation made before the acknowledgment of
\* the first has expired; and once every acknowledgment has expired (no
\* write and no timer is pending) the button shows the copy icon again.
C12_CopyThenRevert ==
    /\ (ev.op = "copy" /\ ev.outcome = "copied")
       => clipboard = SubSeq(CodeHistory.items[ev.id].content.s, 2, 2)
    /\ (writes = <<>> /\ timers = <<>>)
       => \A i \in DOMAIN chatMessages :
             chatMessages[i].button \in {<<>>, <<CopyIcon>>}

\* C13: append-only history: once the page has loaded, every transition
\* leaves the history unchanged, extends it by exactly one message at the
\* end with all earlier messages unchanged, or (startNewChat only) replaces
\* it by the empty sequence.  A transition is one run of addMessage or of
\* startNewChat; the continuation of handleSend, one step here, runs
\* addMessage a second time when its catch block takes over after the first.
C13_AppendOnly ==
    [][ev'.op # "load"
        => \/ UNCHANGED conversationHistory
           \/ AppendsExactly(1)
           \/ /\ ev'.op = "response"
              /\ AppendsExactly(2)
              /\ BeginsWithError(Last(conversationHistory'.items).content)
           \/ /\ ev'.op = "newChat"
              /\ conversationHistory' = EmptyHistory]_vars

\* a user message has just been appended after the two restored messages,
\* which are unchanged
C13_Witness ==
    /\ ev.outcome = "dispatched"
    /\ conversationHistory.t = "array"
    /\ conversationHistory.items =
           <<Message(User, Str(<<"a">>)), Message(Assistant, Str(<<"m">>)),
             Message(User, Str(<<"b">>))>>

\* the last handler ran addMessage, or startNewChat past its gate
Mutated ==
    \/ ev.op \in Modes \cup {"send"} /\ ev.outcome \in {"dispatched", "threw"}
    \/ ev.op = "response"
    \/ ev.op = "newChat" /\ ev.outcome \in {"confirmed", "unasked"}

\* C14: persistence stays in sync: with storage writes that succeed, after
\* every addMessage and every clearing startNewChat, under any interleaving
\* of sends, replies and clears, the value stored under the conversation key
\* is the serialization of the current in-memory history.
C14_PersistedInSync ==
    Mutated => localStorage = Stored(JSONstringify(conversationHistory))

\* a reply has been appended to a history that was cleared while its request
\* was in flight, another request still being in flight: the stored value is
\* the serialization of the one-message history
C14_Witness ==
    /\ ev.op = "response"
    /\ ev.outcome = "reply"
    /\ pending # {}
    /\ conversationHistory.t = "array"
    /\ Len(conversationHistory.items) = 1
    /\ localStorage = Stored(JSONstringify(conversationHistory))

\* C15: a successful send with non-empty input appends exactly two messages:
\* when it is submitted a user message whose content is the trimmed input,
\* which is also the text of the request, and when the reply arrives an
\* assistant message whose content is the reply; when nothing happened
\* between the two (no other send, no clear) they are the last two entries
\* of the history, in that order.
C15_SendAppendsTwo ==
    [][/\ \A r \in Issued :
            \E value \in Typed :
                /\ r.text = Trim(value)
                /\ AppendsExactly(1)
                /\ Last(conversationHistory'.items) = Message(User, Str(Trim(value)))
       /\ (ev'.op = "response" /\ ev'.outcome = "reply")
            => /\ AppendsExactly(1)
               /\ Last(conversationHistory'.items) = Message(Assistant, Reply("reply"))
               /\ (ev.outcome = "dispatched" /\ ev.id = ev'.id)
                    => \A r \in Finished :
                          SubSeq(conversationHistory'.items,
                                 Len(conversationHistory'.items) - 1,
                                 Len(conversationHistory'.items))
                            = <<Message(User, Str(r.text)),
                                Message(Assistant, Reply("reply"))>>]_vars

\* the message blocks of the view, the typing placeholder left out
RECURSIVE MessageBlocks(_)
MessageBlocks(view) ==
    IF view = <<>> THEN <<>>
    ELSE IF Head(view).kind = "message"
         THEN <<Head(view)>> \o MessageBlocks(Tail(view))
         ELSE MessageBlocks(Tail(view))

\* block b shows message msg
Shows(b, msg) ==
    /\ b.role = msg.role
    /\ MarkedParse(msg.content).err = NoError
    /\ b.html = MarkedParse(msg.content).html

\* C16: after every completed mutation of the history (an append, a clear,
\* a successful restore) the message blocks of the view, the typing
\* placeholder not counted, correspond one to one and in the same order to
\* the messages of the history.
C16_ViewMatchesHistory ==
    (/\ conversationHistory.t = "array"
     /\ Mutated \/ (ev.op = "load" /\ WellFormed(localStorage)))
    => /\ Len(MessageBlocks(chatMessages)) = Len(conversationHistory.items)
       /\ \A i \in DOMAIN conversationHistory.items :
             Shows(MessageBlocks(chatMessages)[i], conversationHistory.items[i])

\* C17: whenever no send is in flight the pending action is chat; in
\* particular the Debug, Explain or Generate control activated on an empty
\* or whitespace-only input appends nothing, issues no request and leaves
\* the pending action chat.
C17_IdleActionIsChat ==
    [][/\ pending' = {} => currentAction' = "chat"
       /\ (ev'.op \in Modes /\ ev'.outcome = "empty")
            => /\ UNCHANGED <<conversationHistory, pending>>
               /\ currentAction' = "chat"]_vars

\* C18: side panel consistency: at a narrow viewport (width <= 768), after
\* any sequence of toggle clicks, outside clicks and resize events, the flag
\* isSidebarOpen is true exactly when the side panel carries the class
\* 'open' (so that a toggle flips what is visible and an outside click
\* closes an open panel).
C18_PanelFlagMatchesClass ==
    sidebar.innerWidth <= MobileWidth
    => (sidebar.isSidebarOpen <=> sidebar.open)

====
